---- MODULE Spec2Model ----
(***************************************************************************)
(* Model of scripts/generate_network_report.py: main() reads sys.argv,     *)
(* parse_test_results() globs the XML documents under the test directory,  *)
(* parses each one, walks its testcase elements and accumulates the        *)
(* metrics dictionary, and main() dumps it to the output file.             *)
(*                                                                         *)
(* Strings that the code searches with `in` are sequences of one-character *)
(* strings, so that substring search is computed, not assumed.  XML        *)
(* elements are records [tag, attrib, text, children] as ElementTree       *)
(* presents them.  Durations are held in tenths of a second; the quotient  *)
(* total_time / len(tests) is held as the fraction [num, den].             *)
(* The environment reads and writes without I/O failure.                   *)
(***************************************************************************)
EXTENDS Integers, Sequences, FiniteSets, TLC

VARIABLES argv, fs, pc, metrics, xml_files, fileIdx, todo, output_file,
          artifact, exitCode, error

vars == <<argv, fs, pc, metrics, xml_files, fileIdx, todo, output_file,
          artifact, exitCode, error>>

(* Largest number of XML documents under the test directory. *)
MaxDocs == 2

-----------------------------------------------------------------------------
(* Strings *)

sLatencyCap == <<"L","a","t","e","n","c","y">>
sLatencyLow == <<"l","a","t","e","n","c","y">>
sPASS == <<"P","A","S","S">>
sTwoPlayers == <<"T","w","o","P","l","a","y","e","r","s">>
sThreePlayer == <<"T","h","r","e","e","P","l","a","y","e","r">>
sFourPlayer == <<"F","o","u","r","P","l","a","y","e","r">>
sEmpty == <<>>

(* Python `sub in s` on strings. *)
Contains(sub, s) ==
    \E i \in 0..(Len(s) - Len(sub)) : SubSeq(s, i + 1, i + Len(sub)) = sub

Digits == <<"0","1","2","3","4","5","6","7","8","9">>

IsDigit(c) == \E d \in 1..10 : Digits[d] = c

DigitVal(c) == (CHOOSE d \in 1..10 : Digits[d] = c) - 1

RECURSIVE DecVal(_)
DecVal(s) == IF s = <<>> THEN 0
             ELSE 10 * DecVal(SubSeq(s, 1, Len(s) - 1)) + DigitVal(s[Len(s)])

AllDigits(s) == Len(s) > 0 /\ \A i \in 1..Len(s) : IsDigit(s[i])

DotAt(s) == IF \E i \in 1..Len(s) : s[i] = "."
            THEN CHOOSE i \in 1..Len(s) : s[i] = "." ELSE 0

(* float(s) accepts the literal: digits, or digits "." one digit            *)
(* (the literal forms of the documents below).                              *)
FloatOk(s) ==
    IF DotAt(s) = 0 THEN AllDigits(s)
    ELSE /\ AllDigits(SubSeq(s, 1, DotAt(s) - 1))
         /\ Len(s) = DotAt(s) + 1
         /\ IsDigit(s[Len(s)])

(* float(s) in tenths of a second, for an accepted literal. *)
FloatTenths(s) ==
    IF DotAt(s) = 0 THEN 10 * DecVal(s)
    ELSE 10 * DecVal(SubSeq(s, 1, DotAt(s) - 1)) + DigitVal(s[Len(s)])

-----------------------------------------------------------------------------
(* ElementTree elements *)

NoAttrib == [k \in {} |-> sEmpty]

Elem(tag, attrib, text, children) ==
    [tag |-> tag, attrib |-> attrib, text |-> text, children |-> children]

(* Element.get(key): is the attribute present. *)
Has(e, key) == key \in DOMAIN e.attrib

(* Element.find(tag): index of the first direct child with the tag, 0 for None. *)
Find(e, tag) ==
    IF \E i \in 1..Len(e.children) : e.children[i].tag = tag
    THEN CHOOSE i \in 1..Len(e.children) :
            /\ e.children[i].tag = tag
            /\ \A j \in 1..(i - 1) : e.children[j].tag # tag
    ELSE 0

(* All elements beneath a list of siblings, in document order. *)
RECURSIVE Descendants(_)
Descendants(cs) ==
    IF Len(cs) = 0 THEN <<>>
    ELSE <<Head(cs)>> \o Descendants(Head(cs).children) \o Descendants(Tail(cs))

(* root.findall('.//testcase'): the testcase elements beneath root. *)
FindallTestcase(root) ==
    LET IsTestcase(e) == e.tag = "testcase"
    IN  SelectSeq(Descendants(root.children), IsTestcase)

-----------------------------------------------------------------------------
(* The documents the test directory may hold *)

sPing == <<"P","i","n","g">>
sSync == <<"S","y","n","c">>
sNet == <<"N","e","t">>
sTwoPlayersScenario == sTwoPlayers \o <<"S","c","e","n","a","r","i","o">>
sTwoPlayersThreePlayer == sTwoPlayers \o sThreePlayer
sLatencyOkPass == sLatencyCap \o <<" ","O","K"," ","-"," ">> \o sPASS
sUpperLatencyPass == <<"L","A","T","E","N","C","Y"," ">> \o sPASS
sLowerLatencyPass == sLatencyLow \o <<" ","p","a","s","s">>
sOne == <<"1",".","0">>
sThree == <<"3",".","0">>
sAbc == <<"a","b","c">>

SystemOut(text) == Elem("system-out", NoAttrib, text, <<>>)
Failure == Elem("failure", NoAttrib, sEmpty, <<>>)
Testcase(attrib, children) == Elem("testcase", attrib, sEmpty, children)
Testsuite(children) == Elem("testsuite", NoAttrib, sEmpty, children)

tcPing == Testcase([name |-> sPing, classname |-> sNet, time |-> sOne], <<>>)
tcSync == Testcase([name |-> sSync, classname |-> sNet, time |-> sThree], <<Failure>>)
tcTwo == Testcase([name |-> sTwoPlayersScenario, time |-> sOne],
                  <<SystemOut(sLatencyOkPass)>>)
tcMulti == Testcase([name |-> sTwoPlayersThreePlayer], <<SystemOut(sPASS)>>)
tcFour == Testcase([name |-> sFourPlayer, time |-> sThree],
                   <<SystemOut(sUpperLatencyPass)>>)
tcThreeLower == Testcase([name |-> sThreePlayer, classname |-> sNet],
                         <<Failure, SystemOut(sLowerLatencyPass)>>)
tcNoText == Testcase([classname |-> sNet, time |-> sThree], <<SystemOut(sEmpty)>>)
tcBadTime == Testcase([name |-> sSync, time |-> sAbc], <<>>)

(* A document: ET.parse raises ParseError unless wellFormed. *)
Malformed == [wellFormed |-> FALSE, root |-> Testsuite(<<>>)]
WellFormed(root) == [wellFormed |-> TRUE, root |-> root]

Documents ==
    { Malformed,
      WellFormed(Testsuite(<<>>)),
      WellFormed(Testsuite(<<tcPing, tcSync>>)),
      WellFormed(Testsuite(<<tcTwo>>)),
      WellFormed(Testsuite(<<tcMulti, tcNoText>>)),
      WellFormed(Elem("testsuites", NoAttrib, sEmpty,
                      <<Testsuite(<<tcFour>>), Testsuite(<<tcThreeLower>>)>>)),
      WellFormed(Testsuite(<<tcPing, tcBadTime>>)),
      WellFormed(tcPing) }

(* The command lines. *)
ArgvChoices ==
    { <<"generate_network_report.py">>,
      <<"generate_network_report.py", "results">>,
      <<"generate_network_report.py", "results", "--output", "out.json">>,
      <<"generate_network_report.py", "results", "--output">> }

-----------------------------------------------------------------------------
(* The metrics dictionary *)

NoMetrics == [tests |-> <<>>]

Zero == [num |-> 0, den |-> 1]

InitMetrics ==
    [latency |-> [average |-> Zero, min |-> 0, max |-> 0, samples |-> 0],
     bandwidth |-> [upstream |-> 0, downstream |-> 0, peak |-> 0],
     scenarios |-> [twoPlayers |-> FALSE, threePlayers |-> FALSE,
                    fourPlayers |-> FALSE],
     tests |-> <<>>]

(* float(testcase.get('time', 0)) raises ValueError. *)
TimeRaises(tc) == Has(tc, "time") /\ ~FloatOk(tc.attrib["time"])

(* float(testcase.get('time', 0)), in tenths. *)
TimeOf(tc) == IF Has(tc, "time") THEN FloatTenths(tc.attrib["time"]) ELSE 0

(* system_out is not None and system_out.text *)
HasOutput(tc) ==
    Find(tc, "system-out") # 0 /\ tc.children[Find(tc, "system-out")].text # <<>>

OutputOf(tc) == tc.children[Find(tc, "system-out")].text

(* The latency test of line 46. *)
MentionsLatency(output) ==
    Contains(sLatencyCap, output) \/ Contains(sLatencyLow, output)

(* The flags assigned the outcome of each test instead of only set. *)
TrackScenario_assign(sc, test_name, output) ==
    [twoPlayers |-> Contains(sTwoPlayers, test_name) /\ Contains(sPASS, output),
     threePlayers |-> Contains(sThreePlayer, test_name) /\ Contains(sPASS, output),
     fourPlayers |-> Contains(sFourPlayer, test_name) /\ Contains(sPASS, output)]

(* The scenario flags after the if/elif chain of lines 50-55. *)
TrackScenario(sc, test_name, output) ==
    IF Contains(sTwoPlayers, test_name) /\ Contains(sPASS, output)
    THEN [sc EXCEPT !.twoPlayers = TRUE]
    ELSE IF Contains(sThreePlayer, test_name) /\ Contains(sPASS, output)
    THEN [sc EXCEPT !.threePlayers = TRUE]
    ELSE IF Contains(sFourPlayer, test_name) /\ Contains(sPASS, output)
    THEN [sc EXCEPT !.fourPlayers = TRUE]
    ELSE sc

(* The entry appended to metrics["tests"]. *)
TestEntry(tc) ==
    [name |-> IF Has(tc, "name") THEN tc.attrib["name"] ELSE sEmpty,
     class |-> IF Has(tc, "classname") THEN tc.attrib["classname"] ELSE sEmpty,
     status |-> IF Find(tc, "failure") # 0 THEN "FAIL" ELSE "PASS",
     duration |-> TimeOf(tc)]

(* One iteration of the testcase loop, for a testcase whose time parses. *)
ProcessTestcase(m, tc) ==
    LET test_name == TestEntry(tc).name
        m1 == IF HasOutput(tc) /\ MentionsLatency(OutputOf(tc))
              THEN [m EXCEPT !.latency.samples = @ + 1] ELSE m
        m2 == IF HasOutput(tc)
              THEN [m1 EXCEPT !.scenarios = TrackScenario(@, test_name, OutputOf(tc))]
              ELSE m1
    IN  [m2 EXCEPT !.tests = Append(@, TestEntry(tc))]

RECURSIVE SumDuration(_)
SumDuration(tests) ==
    IF Len(tests) = 0 THEN 0 ELSE Head(tests).duration + SumDuration(Tail(tests))

(* The average taken without the emptiness test. *)
CalculateAverages_unguarded(m) ==
    [m EXCEPT !.latency.average =
                 [num |-> SumDuration(m.tests), den |-> Len(m.tests)]]

(* Lines 72-75: the average, as the fraction total_time / len(tests). *)
CalculateAverages(m) ==
    IF Len(m.tests) # 0
    THEN [m EXCEPT !.latency.average =
                      [num |-> SumDuration(m.tests), den |-> Len(m.tests)]]
    ELSE m

-----------------------------------------------------------------------------
(* The run *)

(* The orders in which glob may enumerate n paths. *)
Orders(n) == {p \in [1..n -> 1..n] : \A i, j \in 1..n : p[i] = p[j] => i = j}

Init ==
    /\ argv \in ArgvChoices
    /\ fs \in UNION {[1..n -> Documents] : n \in 0..MaxDocs}
    /\ pc = "main"
    /\ metrics = NoMetrics
    /\ xml_files = <<>>
    /\ fileIdx = 0
    /\ todo = <<>>
    /\ output_file = ""
    /\ artifact = <<>>
    /\ exitCode = -1
    /\ error = ""

(* The argument count compared with 1. *)
MissingArgument_one(args) == Len(args) < 1

(* len(sys.argv) < 2 *)
MissingArgument(args) == Len(args) < 2

(* Lines 85-91: the output file named after --output, or the default. *)
OutputFile(args) ==
    IF \E i \in 1..Len(args) : args[i] = "--output"
    THEN LET idx == CHOOSE i \in 1..Len(args) :
                        /\ args[i] = "--output"
                        /\ \A j \in 1..(i - 1) : args[j] # "--output"
         IN  IF idx < Len(args) THEN args[idx + 1] ELSE "network_metrics.json"
    ELSE "network_metrics.json"

(* main: usage message and sys.exit(1). *)
Usage ==
    /\ pc = "main"
    /\ MissingArgument(argv)
    /\ pc' = "exit"
    /\ exitCode' = 1
    /\ UNCHANGED <<argv, fs, metrics, xml_files, fileIdx, todo, output_file,
                   artifact, error>>

(* main reads its arguments and calls parse_test_results, which builds the  *)
(* fresh metrics dictionary.                                                *)
CallParse ==
    /\ pc = "main"
    /\ ~MissingArgument(argv)
    /\ output_file' = OutputFile(argv)
    /\ metrics' = InitMetrics
    /\ pc' = "glob"
    /\ UNCHANGED <<argv, fs, xml_files, fileIdx, todo, artifact, exitCode, error>>

(* xml_files = list(Path(test_dir).glob("**/*.xml")), in the order the      *)
(* file system enumerates the paths.                                        *)
Glob ==
    /\ pc = "glob"
    /\ xml_files' \in Orders(Len(fs))
    /\ pc' = "found"
    /\ UNCHANGED <<argv, fs, metrics, fileIdx, todo, output_file, artifact,
                   exitCode, error>>

(* No documents treated as fatal: exit 1 without a report. *)
NoTestResults_fatal ==
    /\ pc = "found"
    /\ Len(xml_files) = 0
    /\ exitCode' = 1
    /\ pc' = "exit"
    /\ UNCHANGED <<argv, fs, metrics, xml_files, fileIdx, todo, output_file,
                   artifact, error>>

(* if not xml_files: return metrics *)
NoTestResults ==
    /\ pc = "found"
    /\ Len(xml_files) = 0
    /\ pc' = "write"
    /\ UNCHANGED <<argv, fs, metrics, xml_files, fileIdx, todo, output_file,
                   artifact, exitCode, error>>

EnterLoop ==
    /\ pc = "found"
    /\ Len(xml_files) # 0
    /\ fileIdx' = 1
    /\ pc' = "for"
    /\ UNCHANGED <<argv, fs, metrics, xml_files, todo, output_file, artifact,
                   exitCode, error>>

CurrentDoc == fs[xml_files[fileIdx]]

(* The handler leaving the file loop (break) instead of continuing. *)
ParseError_break ==
    /\ pc = "for"
    /\ fileIdx <= Len(xml_files)
    /\ ~CurrentDoc.wellFormed
    /\ fileIdx' = Len(xml_files) + 1
    /\ UNCHANGED <<argv, fs, pc, metrics, xml_files, todo, output_file,
                   artifact, exitCode, error>>

(* ET.parse raises ParseError: the handler prints and continues. *)
ParseError ==
    /\ pc = "for"
    /\ fileIdx <= Len(xml_files)
    /\ ~CurrentDoc.wellFormed
    /\ fileIdx' = fileIdx + 1
    /\ UNCHANGED <<argv, fs, pc, metrics, xml_files, todo, output_file,
                   artifact, exitCode, error>>

(* ET.parse succeeds: the testcase loop starts over root.findall. *)
ParseDocument ==
    /\ pc = "for"
    /\ fileIdx <= Len(xml_files)
    /\ CurrentDoc.wellFormed
    /\ todo' = FindallTestcase(CurrentDoc.root)
    /\ pc' = "testcase"
    /\ UNCHANGED <<argv, fs, metrics, xml_files, fileIdx, output_file,
                   artifact, exitCode, error>>

(* float() raises ValueError, which no handler catches: the interpreter     *)
(* prints the traceback and exits with status 1.                            *)
TestcaseValueError ==
    /\ pc = "testcase"
    /\ Len(todo) # 0
    /\ TimeRaises(Head(todo))
    /\ error' = "ValueError"
    /\ exitCode' = 1
    /\ pc' = "exit"
    /\ UNCHANGED <<argv, fs, metrics, xml_files, fileIdx, todo, output_file,
                   artifact>>

(* One testcase is read and its entry appended. *)
TestcaseStep ==
    /\ pc = "testcase"
    /\ Len(todo) # 0
    /\ ~TimeRaises(Head(todo))
    /\ metrics' = ProcessTestcase(metrics, Head(todo))
    /\ todo' = Tail(todo)
    /\ UNCHANGED <<argv, fs, pc, xml_files, fileIdx, output_file, artifact,
                   exitCode, error>>

(* The testcase loop is exhausted: on to the next file. *)
NextDocument ==
    /\ pc = "testcase"
    /\ Len(todo) = 0
    /\ fileIdx' = fileIdx + 1
    /\ pc' = "for"
    /\ UNCHANGED <<argv, fs, metrics, xml_files, todo, output_file, artifact,
                   exitCode, error>>

(* The file loop is exhausted: averages, return metrics. *)
Averages ==
    /\ pc = "for"
    /\ fileIdx > Len(xml_files)
    /\ metrics' = CalculateAverages(metrics)
    /\ pc' = "write"
    /\ UNCHANGED <<argv, fs, xml_files, fileIdx, todo, output_file, artifact,
                   exitCode, error>>

(* main writes the report and returns: exit status 0. *)
WriteReport ==
    /\ pc = "write"
    /\ artifact' = <<[file |-> output_file, content |-> metrics]>>
    /\ exitCode' = 0
    /\ pc' = "exit"
    /\ UNCHANGED <<argv, fs, metrics, xml_files, fileIdx, todo, output_file,
                   error>>

Next ==
    \/ Usage
    \/ CallParse
    \/ Glob
    \/ NoTestResults
    \/ EnterLoop
    \/ ParseError
    \/ ParseDocument
    \/ TestcaseValueError
    \/ TestcaseStep
    \/ NextDocument
    \/ Averages
    \/ WriteReport

Spec == Init /\ [][Next]_vars

-----------------------------------------------------------------------------
(* What the properties speak of *)

(* parse_test_results has returned its summary. *)
Returned == pc = "write" \/ (pc = "exit" /\ exitCode = 0)

RECURSIVE ProcessAll(_, _)
ProcessAll(m, tcs) ==
    IF Len(tcs) = 0 THEN m ELSE ProcessAll(ProcessTestcase(m, Head(tcs)), Tail(tcs))

(* The file loop of lines 29-70 run over a list of paths. *)
RECURSIVE ProcessFiles(_, _)
ProcessFiles(m, files) ==
    IF Len(files) = 0 THEN m
    ELSE LET doc == fs[Head(files)]
         IN  ProcessFiles(IF doc.wellFormed
                          THEN ProcessAll(m, FindallTestcase(doc.root)) ELSE m,
                          Tail(files))

(* The summary parse_test_results returns for a list of paths. *)
Summary(files) == CalculateAverages(ProcessFiles(InitMetrics, files))

(* The paths of a list whose documents are well-formed. *)
WellFormedOnly(files) ==
    LET Good(i) == fs[i].wellFormed IN SelectSeq(files, Good)

(* The records the run collects: the testcase elements the loop reads. *)
RECURSIVE Collected(_)
Collected(files) ==
    IF Len(files) = 0 THEN <<>>
    ELSE (IF fs[Head(files)].wellFormed
          THEN FindallTestcase(fs[Head(files)].root) ELSE <<>>)
         \o Collected(Tail(files))

(* Every testcase element of a document, its root included. *)
TestcaseElements(root) ==
    LET IsTestcase(e) == e.tag = "testcase"
    IN  SelectSeq(<<root>> \o Descendants(root.children), IsTestcase)

RECURSIVE AllTestcaseElements(_)
AllTestcaseElements(files) ==
    IF Len(files) = 0 THEN <<>>
    ELSE (IF fs[Head(files)].wellFormed
          THEN TestcaseElements(fs[Head(files)].root) ELSE <<>>)
         \o AllTestcaseElements(Tail(files))

(* The diagnostic text of a record: empty when it has none. *)
DiagnosticText(tc) ==
    IF \E i \in 1..Len(tc.children) : tc.children[i].tag = "system-out"
    THEN tc.children[CHOOSE i \in 1..Len(tc.children) :
                        /\ tc.children[i].tag = "system-out"
                        /\ \A j \in 1..(i - 1) : tc.children[j].tag # "system-out"].text
    ELSE <<>>

RecordName(tc) == IF "name" \in DOMAIN tc.attrib THEN tc.attrib["name"] ELSE <<>>

UpperLetters == <<"A","B","C","D","E","F","G","H","I","J","K","L","M",
                  "N","O","P","Q","R","S","T","U","V","W","X","Y","Z">>
LowerLetters == <<"a","b","c","d","e","f","g","h","i","j","k","l","m",
                  "n","o","p","q","r","s","t","u","v","w","x","y","z">>

LowerChar(c) ==
    IF \E k \in 1..26 : UpperLetters[k] = c
    THEN LowerLetters[CHOOSE k \in 1..26 : UpperLetters[k] = c]
    ELSE c

Lower(s) == [i \in 1..Len(s) |-> LowerChar(s[i])]

(* Some collected record has the marker in its name and PASS in its text. *)
SomePassing(marker) ==
    \E i \in 1..Len(Collected(xml_files)) :
        /\ Contains(marker, RecordName(Collected(xml_files)[i]))
        /\ Contains(sPASS, DiagnosticText(Collected(xml_files)[i]))

EmptySummary(m) ==
    /\ m.tests = <<>>
    /\ m.latency.average.num = 0
    /\ m.latency.samples = 0
    /\ ~m.scenarios.twoPlayers /\ ~m.scenarios.threePlayers
    /\ ~m.scenarios.fourPlayers

-----------------------------------------------------------------------------
(* Properties *)

(* C1: once parse_test_results has returned, each scenario flag is true     *)
(* exactly when some collected record carries that flag's marker in its     *)
(* name and PASS in its diagnostic text, also for names with several        *)
(* markers.                                                                 *)
C1_ScenarioFlagsIff ==
    Returned =>
        /\ metrics.scenarios.twoPlayers <=> SomePassing(sTwoPlayers)
        /\ metrics.scenarios.threePlayers <=> SomePassing(sThreePlayer)
        /\ metrics.scenarios.fourPlayers <=> SomePassing(sFourPlayer)

(* C2: a missing or non-numeric time attribute never raises, and its        *)
(* record has duration 0.                                                   *)
C2_BadTimeIsZero ==
    /\ error # "ValueError"
    /\ Returned =>
          \A i \in 1..Len(Collected(xml_files)) :
              LET tc == Collected(xml_files)[i]
              IN  ("time" \notin DOMAIN tc.attrib \/ ~FloatOk(tc.attrib["time"]))
                     => metrics.tests[i].duration = 0

(* C3: a malformed document does not stop the run: whenever the file loop   *)
(* is to pick its next file, and when the summary is returned, the          *)
(* accumulator is what the well-formed documents handled so far give, and   *)
(* no file before the loop index was left out.                              *)
C3_MalformedSkipped ==
    /\ pc = "for" =>
          metrics = ProcessFiles(InitMetrics,
                                 WellFormedOnly(SubSeq(xml_files, 1, fileIdx - 1)))
    /\ Returned => metrics = Summary(WellFormedOnly(xml_files))

C3_Witness ==
    /\ Returned
    /\ Len(xml_files) = 2
    /\ ~fs[xml_files[1]].wellFormed
    /\ fs[xml_files[2]].wellFormed
    /\ Len(metrics.tests) = 2

(* C4: latency.samples is the number of collected records whose diagnostic  *)
(* text contains "latency" in any letter casing.                            *)
C4_SamplesCaseInsensitive ==
    Returned =>
        metrics.latency.samples =
            Cardinality({i \in 1..Len(Collected(xml_files)) :
                Contains(sLatencyLow, Lower(DiagnosticText(Collected(xml_files)[i])))})

(* C5: the returned average is the sum of the durations of tests over their *)
(* number, and 0, with no division by zero, when tests is empty.            *)
C5_AverageIsMean ==
    Returned =>
        LET a == metrics.latency.average
            t == metrics.tests
        IN  /\ a.den # 0
            /\ IF Len(t) = 0 THEN a.num = 0
               ELSE a.num * Len(t) = SumDuration(t) * a.den

C5_Witness ==
    /\ Returned
    /\ Len(metrics.tests) = 2
    /\ metrics.tests[1].duration = 10
    /\ metrics.tests[2].duration = 30
    /\ metrics.latency.average.num = 2 * 10 * metrics.latency.average.den

(* C6: without the positional argument main exits with code 1 and nothing   *)
(* else happens: parse_test_results is not called, no file is written.      *)
C6_UsageExit ==
    Len(argv) < 2 =>
        /\ pc \in {"main", "exit"}
        /\ metrics = NoMetrics
        /\ xml_files = <<>>
        /\ artifact = <<>>
        /\ pc = "exit" => exitCode = 1

C6_Witness == Len(argv) < 2 /\ pc = "exit" /\ exitCode = 1 /\ Len(fs) > 0

(* C7: with the argument given and no document under the root, no error     *)
(* arises, the summary is empty, and the run ends with the empty summary    *)
(* written and exit code 0.                                                 *)
C7_EmptyRun ==
    (Len(argv) >= 2 /\ Len(fs) = 0) =>
        /\ error = ""
        /\ pc = "write" => EmptySummary(metrics)
        /\ pc = "exit" =>
              /\ exitCode = 0
              /\ Len(artifact) = 1
              /\ artifact[1].file = output_file
              /\ EmptySummary(artifact[1].content)

C7_Witness ==
    /\ Len(argv) >= 2 /\ Len(fs) = 0
    /\ pc = "exit" /\ exitCode = 0 /\ Len(artifact) = 1

(* C8: the returned summary is the same for every order in which the file   *)
(* system may enumerate the same documents.                                 *)
C8_OrderIndependent ==
    Returned => \A p \in Orders(Len(fs)) : metrics = Summary(p)

(* C9: tests holds one entry for every testcase element of every            *)
(* well-formed document, the root element included, in order of discovery.  *)
C9_OneEntryPerTestcase ==
    Returned =>
        /\ Len(metrics.tests) = Len(AllTestcaseElements(xml_files))
        /\ \A i \in 1..Len(metrics.tests) :
              i <= Len(AllTestcaseElements(xml_files)) =>
                  metrics.tests[i].name = RecordName(AllTestcaseElements(xml_files)[i])

(* C10: once the accumulator exists, no step lowers latency.samples, clears *)
(* a scenario flag or removes an entry of tests.                            *)
C10_Monotone ==
    [][metrics # NoMetrics =>
          /\ metrics' # NoMetrics
          /\ metrics'.latency.samples >= metrics.latency.samples
          /\ metrics.scenarios.twoPlayers => metrics'.scenarios.twoPlayers
          /\ metrics.scenarios.threePlayers => metrics'.scenarios.threePlayers
          /\ metrics.scenarios.fourPlayers => metrics'.scenarios.fourPlayers
          /\ Len(metrics'.tests) >= Len(metrics.tests)
          /\ SubSeq(metrics'.tests, 1, Len(metrics.tests)) = metrics.tests]_vars

C10_Witness ==
    /\ pc = "for"
    /\ fileIdx = 3
    /\ fs[xml_files[1]].wellFormed
    /\ ~fs[xml_files[2]].wellFormed
    /\ metrics.latency.samples > 0
    /\ metrics.scenarios.twoPlayers

====
